---- MODULE Spec2Model ----
(***************************************************************************)
(* Model of bot.py (BLASTER): the /attendance command handler, its         *)
(* argument parser and the worksheet helpers it calls.                     *)
(*                                                                         *)
(* Python strings are modelled as sequences of one-character strings, so   *)
(* that split, strip, lower, join and the strptime checks are computed     *)
(* and not assumed.  The worksheet is a grid of such strings; the empty    *)
(* string <<>> is an empty cell.  A cell holds exactly the string that     *)
(* was written to it.                                                      *)
(***************************************************************************)
EXTENDS Integers, Sequences, FiniteSets, TLC

(***************************************************************************)
(* Bounds of the model.                                                    *)
(***************************************************************************)
\* rows of the worksheet grid (rows=2000 in get_ws, scaled down)
MaxRows == 4
\* columns of the worksheet grid at creation (cols=100 in get_ws, scaled down)
NewCols == 2
\* cells filled in by hand before the bot first runs
MaxPrefilled == 2
\* /attendance updates handled in one behaviour
MaxInvocations == 2
\* argument tokens of the messages the parser specification enumerates
MaxTokens == 5
\* the service refuses to grow a worksheet beyond this many columns
ColLimit == NewCols + 1

(***************************************************************************)
(* String literals of the program.                                         *)
(***************************************************************************)
CMD == <<"/", "a", "t", "t", "e", "n", "d", "a", "n", "c", "e">>
S_absent == <<"a", "b", "s", "e", "n", "t">>
S_late == <<"l", "a", "t", "e">>
S_leave == <<"l", "e", "a", "v", "e">>
S_leaveearly == <<"l", "e", "a", "v", "e", "e", "a", "r", "l", "y">>
S_leave_early == <<"l", "e", "a", "v", "e", "_", "e", "a", "r", "l", "y">>
S_leave_early_sp == <<"l", "e", "a", "v", "e", " ", "e", "a", "r", "l", "y">>
S_NA == <<"N", "A">>
S_N_A == <<"N", "/", "A">>
S_at == <<"@">>
L_Name == <<"N", "a", "m", "e", ":", " ">>
L_Handle == <<"\n", "T", "e", "l", "e", "g", "r", "a", "m", " ", "H", "a", "n", "d", "l", "e", ":", " ">>
L_Status == <<"\n", "S", "t", "a", "t", "u", "s", ":", " ">>
L_Reason == <<"\n", "R", "e", "a", "s", "o", "n", ":", " ">>
L_Submitted == <<"\n", "S", "u", "b", "m", "i", "t", "t", "e", "d", ":", " ">>
L_Time == <<"\n", "T", "i", "m", "e", ":", " ">>

(***************************************************************************)
(* Python string operations.                                               *)
(***************************************************************************)
LowerLetters == <<"a", "b", "c", "d", "e", "f", "g", "h", "i", "j", "k", "l", "m", "n", "o", "p", "q", "r", "s", "t", "u", "v", "w", "x", "y", "z">>
UpperLetters == <<"A", "B", "C", "D", "E", "F", "G", "H", "I", "J", "K", "L", "M", "N", "O", "P", "Q", "R", "S", "T", "U", "V", "W", "X", "Y", "Z">>
DigitChars == <<"0", "1", "2", "3", "4", "5", "6", "7", "8", "9">>

\* the empty string
Empty == <<>>

IsSpace(c) == c \in {" ", "\n", "\t"}

IsDigit(c) == \E i \in 1..10 : DigitChars[i] = c

DigitVal(c) == (CHOOSE i \in 1..10 : DigitChars[i] = c) - 1

\* str.lower() and str.upper(), one character
LowerChar(c) ==
  IF \E i \in 1..26 : UpperLetters[i] = c
    THEN LowerLetters[CHOOSE i \in 1..26 : UpperLetters[i] = c]
    ELSE c

UpperChar(c) ==
  IF \E i \in 1..26 : LowerLetters[i] = c
    THEN UpperLetters[CHOOSE i \in 1..26 : LowerLetters[i] = c]
    ELSE c

lower(s) == [i \in 1..Len(s) |-> LowerChar(s[i])]

upper(s) == [i \in 1..Len(s) |-> UpperChar(s[i])]

RECURSIVE lstrip(_)
lstrip(s) == IF s # Empty /\ IsSpace(Head(s)) THEN lstrip(Tail(s)) ELSE s

RECURSIVE rstrip(_)
rstrip(s) ==
  IF s # Empty /\ IsSpace(s[Len(s)]) THEN rstrip(SubSeq(s, 1, Len(s) - 1)) ELSE s

strip(s) == rstrip(lstrip(s))

\* length of the leading run of s that holds no character of the set stop
RECURSIVE RunLen(_, _)
RunLen(s, stop) ==
  IF s = Empty \/ Head(s) \in stop THEN 0 ELSE 1 + RunLen(Tail(s), stop)

\* str.split(): the maximal runs of non-whitespace characters
RECURSIVE split(_)
split(s) ==
  LET t == lstrip(s)
      n == RunLen(t, {" ", "\n", "\t"})
  IN IF t = Empty THEN <<>>
     ELSE <<SubSeq(t, 1, n)>> \o split(SubSeq(t, n + 1, Len(t)))

\* str.split(maxsplit=1): the first word and, when not empty, the rest
split_maxsplit1(s) ==
  LET t == lstrip(s)
      n == RunLen(t, {" ", "\n", "\t"})
      rest == lstrip(SubSeq(t, n + 1, Len(t)))
  IN IF t = Empty THEN <<>>
     ELSE IF rest = Empty THEN <<SubSeq(t, 1, n)>>
     ELSE <<SubSeq(t, 1, n), rest>>

\* sep.join(words)
RECURSIVE join(_, _)
join(sep, words) ==
  IF words = <<>> THEN Empty
  ELSE IF Len(words) = 1 THEN words[1]
  ELSE words[1] \o sep \o join(sep, Tail(words))

\* the pieces of s between occurrences of the character ch
RECURSIVE Pieces(_, _)
Pieces(s, ch) ==
  LET n == RunLen(s, {ch})
  IN IF n = Len(s) THEN <<s>>
     ELSE <<SubSeq(s, 1, n)>> \o Pieces(SubSeq(s, n + 2, Len(s)), ch)

RECURSIVE ToInt(_)
ToInt(s) ==
  IF s = Empty THEN 0
  ELSE 10 * ToInt(SubSeq(s, 1, Len(s) - 1)) + DigitVal(s[Len(s)])

AllDigits(s) == \A i \in 1..Len(s) : IsDigit(s[i])

(***************************************************************************)
(* datetime.strptime with the two formats the program uses.  A directive   *)
(* %d, %m, %H or %M takes one or two digits, %Y exactly four; the fields   *)
(* must then form a date the calendar has.  The result is the text of the  *)
(* ValueError raised, "" when there is none.                               *)
(***************************************************************************)
IsLeap(y) == (y % 4 = 0 /\ y % 100 # 0) \/ y % 400 = 0

DaysInMonth(m, y) ==
  IF m = 2 THEN (IF IsLeap(y) THEN 29 ELSE 28)
  ELSE IF m \in {4, 6, 9, 11} THEN 30 ELSE 31

\* a directive of one or two digits whose value lies in lo..hi
Field(s, lo, hi) ==
  /\ Len(s) \in 1..2
  /\ AllDigits(s)
  /\ ToInt(s) \in lo..hi

\* the day-of-month directive admits no "0" and no "00"
strptime_date(s) ==
  LET p == Pieces(s, "/")
  IN IF ~ ( /\ Len(p) = 3
            /\ Field(p[1], 1, 31)
            /\ Field(p[2], 1, 12)
            /\ Len(p[3]) = 4
            /\ AllDigits(p[3]) )
       THEN "time data does not match format '%d/%m/%Y'"
     ELSE IF ToInt(p[3]) < 1
       THEN "year 0 is out of range"
     ELSE IF ToInt(p[1]) > DaysInMonth(ToInt(p[2]), ToInt(p[3]))
       THEN "day is out of range for month"
     ELSE ""

strptime_time(s) ==
  LET p == Pieces(s, ":")
  IN IF ~ ( /\ Len(p) = 2
            /\ Field(p[1], 0, 23)
            /\ Field(p[2], 0, 59) )
       THEN "time data does not match format '%H:%M'"
     ELSE ""

(***************************************************************************)
(* parse_attendance_args                                                   *)
(***************************************************************************)
\* the value of a call that raised ValueError(e)
Raise(e) ==
  [ok |-> FALSE, err |-> e, date_str |-> Empty, status |-> Empty,
   name |-> Empty, reason |-> Empty, time_detail |-> Empty]

\* fewer than this many argument tokens is an error
MinTokens == 5

\* NormalizeStatus without the mapping of the short forms to "leave early"
NormalizeStatusKeepsRaw(status_raw) ==
  IF status_raw \in {S_leave, S_leaveearly, S_leave_early, S_absent, S_late, S_leave_early_sp}
    THEN status_raw
    ELSE Empty

\* the status recorded for a lower-cased status token, Empty when refused
NormalizeStatus(status_raw) ==
  IF status_raw \in {S_leave, S_leaveearly, S_leave_early} THEN S_leave_early_sp
  ELSE IF status_raw \in {S_absent, S_late, S_leave_early_sp} THEN status_raw
  ELSE Empty

\* the token taken as the name
NameOf(tokens) == tokens[3]

\* the tokens taken as the reason
ReasonTokens(tokens) == SubSeq(tokens, 4, Len(tokens) - 1)

\* the checks made on the time detail
CheckTime(time_detail) ==
  IF upper(time_detail) # S_NA THEN strptime_time(time_detail) ELSE ""

parse_attendance_args(text) ==
  LET parts == split_maxsplit1(text)
      tokens == split(strip(parts[2]))
      date_str == tokens[1]
      status_raw == strip(lower(tokens[2]))
      time_detail == tokens[Len(tokens)]
      name == NameOf(tokens)
      reason == strip(join(<<" ">>, ReasonTokens(tokens)))
      status == NormalizeStatus(status_raw)
  IN IF Len(parts) < 2 THEN Raise("Missing parameters.")
     ELSE IF Len(tokens) < MinTokens THEN Raise("Please provide all 5 fields.")
     ELSE IF strptime_date(date_str) # "" THEN Raise(strptime_date(date_str))
     ELSE IF status = Empty
       THEN Raise("Status must be one of: absent, late, leave early.")
     ELSE IF CheckTime(time_detail) # "" THEN Raise(CheckTime(time_detail))
     ELSE IF name = Empty THEN Raise("Name cannot be empty.")
     ELSE IF reason = Empty
       THEN Raise("Reason cannot be empty. Use 'Reason NA' if none.")
     ELSE [ok |-> TRUE, err |-> "", date_str |-> date_str, status |-> status,
           name |-> name, reason |-> reason, time_detail |-> time_detail]

(***************************************************************************)
(* format_record_line                                                      *)
(***************************************************************************)
format_record_line(name, tele_username, status, reason, submitted_dt_sgt, time_detail) ==
  LET handle == IF tele_username # Empty THEN S_at \o tele_username ELSE S_N_A
      time_line == IF upper(time_detail) # S_NA
                     THEN L_Time \o time_detail
                     ELSE L_Time \o S_NA
  IN L_Name \o name
     \o L_Handle \o handle
     \o L_Status \o status
     \o L_Reason \o reason
     \o L_Submitted \o submitted_dt_sgt
     \o time_line

(***************************************************************************)
(* State.                                                                  *)
(***************************************************************************)
VARIABLES
  ws_exists,    \* the spreadsheet has a worksheet titled WORKSHEET_TITLE
  sheet,        \* sheet[r][c]: the string in row r, column c of the worksheet
  col_count,    \* ws.col_count, the number of columns of the grid
  pc,           \* where the attendance handler stands
  msg,          \* update.message.text.strip()
  username,     \* update.effective_user.username, Empty for None
  parsed,       \* what parse_attendance_args returned or raised
  col_idx,      \* the column get_or_create_date_column returned, 0 before
  record_line,  \* the record built by format_record_line
  err,          \* str(e) of the exception the handler caught, "" for none
  calls,        \* the spreadsheet API calls this invocation made, in order
  replies,      \* the reply_text calls this invocation made, in order
  raised,       \* an exception left the handler
  pre,          \* history: the worksheet when this invocation began
  recorded,     \* history: <<date_str, column>> of every record written
  invocations   \* number of /attendance updates dispatched so far

vars == <<ws_exists, sheet, col_count, pc, msg, username, parsed, col_idx,
          record_line, err, calls, replies, raised, pre, recorded, invocations>>

Max(a, b) == IF a >= b THEN a ELSE b

EmptySheet == [r \in 1..MaxRows |-> [c \in 1..ColLimit |-> Empty]]

(***************************************************************************)
(* The worksheet as gspread shows it.                                      *)
(***************************************************************************)
\* ws.row_values(r): the cells of row r up to its last non-empty cell
row_values(sh, r) ==
  LET used == {c \in 1..ColLimit : sh[r][c] # Empty}
      n == IF used = {} THEN 0 ELSE CHOOSE c \in used : \A d \in used : d <= c
  IN [c \in 1..n |-> sh[r][c]]

\* ws.col_values(c): the cells of column c down to its last non-empty cell
col_values(sh, c) ==
  LET used == {r \in 1..MaxRows : sh[r][c] # Empty}
      n == IF used = {} THEN 0 ELSE CHOOSE r \in used : \A q \in used : q <= r
  IN [r \in 1..n |-> sh[r][c]]

\* ws.update_cell(r, c, v) is refused outside the grid
InGrid(r, c, cols) == r \in 1..MaxRows /\ c \in 1..cols

update_cell(sh, r, c, v) == [sh EXCEPT ![r][c] = v]

\* HeaderIndex with the search begun at the second header
HeaderIndexFromSecond(headers, date_str) ==
  IF \E i \in 2..Len(headers) : headers[i] = date_str
    THEN CHOOSE i \in 2..Len(headers) :
           /\ headers[i] = date_str
           /\ \A j \in 2..(i - 1) : headers[j] # date_str
    ELSE 0

\* headers.index(date_str) + 1, 0 standing for the ValueError
HeaderIndex(headers, date_str) ==
  IF \E i \in 1..Len(headers) : headers[i] = date_str
    THEN CHOOSE i \in 1..Len(headers) :
           /\ headers[i] = date_str
           /\ \A j \in 1..(i - 1) : headers[j] # date_str
    ELSE 0

\* TargetCol without the step past the last header
TargetColOnLast(headers) ==
  IF headers # <<>> THEN Max(Len(headers), 1) ELSE 1

\* the column a new date header goes to
TargetCol(headers) ==
  IF headers # <<>> THEN Max(Len(headers), 1) + 1 ELSE 1

\* FirstEmptyRow without the step past the last cell
FirstEmptyRowOnLast(column) ==
  IF Len(column) = 0 THEN 2 ELSE Len(column)

\* the row a new record goes to
FirstEmptyRow(column) ==
  IF Len(column) + 1 = 1 THEN 2 ELSE Len(column) + 1

\* one API call of a helper, as logged
Call(fn, op, ok) == [fn |-> fn, op |-> op, ok |-> ok]

\* one reply_text call, as logged
Reply(kind, e, args, delivered) ==
  [kind |-> kind, err |-> e, args |-> args, delivered |-> delivered]

\* OnParseError with the return after the warning left out of the handler
OnParseErrorFallsThrough == "get_ws"

\* where the handler goes when parse_attendance_args raises
OnParseError == "warning"

\* OnSheetError with an except clause that swallows the exception
OnSheetErrorSwallowed == "done"

\* where the handler goes when a step of the try block raises
OnSheetError == "reply_failure"

(***************************************************************************)
(* The worksheet helpers.  Each takes the worksheet ws = [exists, sheet,   *)
(* cols] and fault, the number of the API call of this helper that raises  *)
(* (0: none raises by itself).  The result holds the worksheet after the   *)
(* helper, the calls made, and either the value returned or the error.     *)
(* In a logged call, ok is FALSE when the exception left the helper.       *)
(* fits is FALSE when the helper makes fewer than fault calls.             *)
(***************************************************************************)
Returned(ws, made, value) ==
  [fits |-> TRUE, ok |-> TRUE, err |-> "", ws |-> ws, calls |-> made, value |-> value]

Raised(ws, made, e) ==
  [fits |-> TRUE, ok |-> FALSE, err |-> e, ws |-> ws, calls |-> made, value |-> 0]

NoSuchFault(ws) ==
  [fits |-> FALSE, ok |-> FALSE, err |-> "", ws |-> ws, calls |-> <<>>, value |-> 0]

get_ws(ws, fault) ==
  LET fn == "get_ws"
      created == [exists |-> TRUE, sheet |-> EmptySheet, cols |-> NewCols]
  IN IF fault = 1
       THEN Raised(ws, <<Call(fn, "open_by_key", FALSE)>>, "APIError")
     ELSE IF ws.exists
       THEN IF fault = 0
              THEN Returned(ws, <<Call(fn, "open_by_key", TRUE),
                                  Call(fn, "worksheet", TRUE)>>, 0)
              ELSE NoSuchFault(ws)
     \* WorksheetNotFound is caught inside get_ws
     ELSE IF fault = 2
       THEN Raised(ws, <<Call(fn, "open_by_key", TRUE),
                         Call(fn, "worksheet", TRUE),
                         Call(fn, "add_worksheet", FALSE)>>, "APIError")
     ELSE IF fault = 0
       THEN Returned(created, <<Call(fn, "open_by_key", TRUE),
                                Call(fn, "worksheet", TRUE),
                                Call(fn, "add_worksheet", TRUE)>>, 0)
     ELSE NoSuchFault(ws)

ensure_header_row(ws, fault) ==
  LET fn == "ensure_header_row"
      headers == row_values(ws.sheet, 1)
  IN IF fault = 1
       THEN Raised(ws, <<Call(fn, "row_values", FALSE)>>, "APIError")
     ELSE IF headers # <<>>
       THEN IF fault = 0
              THEN Returned(ws, <<Call(fn, "row_values", TRUE)>>, 0)
              ELSE NoSuchFault(ws)
     ELSE IF fault = 2
       THEN Raised(ws, <<Call(fn, "row_values", TRUE),
                         Call(fn, "update", FALSE)>>, "APIError")
     ELSE IF fault = 0
       THEN Returned([ws EXCEPT !.sheet = update_cell(ws.sheet, 1, 1, Empty)],
                     <<Call(fn, "row_values", TRUE), Call(fn, "update", TRUE)>>, 0)
     ELSE NoSuchFault(ws)

get_or_create_date_column(ws, date_str, fault) ==
  LET fn == "get_or_create_date_column"
      headers == row_values(ws.sheet, 1)
      found == HeaderIndex(headers, date_str)
      target_col == TargetCol(headers)
      grow == target_col > ws.cols
      grown == IF grow THEN [ws EXCEPT !.cols = target_col] ELSE ws
      read == <<Call(fn, "row_values", TRUE)>>
      added == IF grow THEN <<Call(fn, "add_cols", TRUE)>> ELSE <<>>
      nupdate == IF grow THEN 3 ELSE 2
  IN IF fault = 1
       THEN Raised(ws, <<Call(fn, "row_values", FALSE)>>, "APIError")
     ELSE IF found # 0
       THEN IF fault = 0 THEN Returned(ws, read, found) ELSE NoSuchFault(ws)
     ELSE IF grow /\ target_col > ColLimit
       THEN IF fault = 0
              THEN Raised(ws, read \o <<Call(fn, "add_cols", FALSE)>>,
                          "APIError: column limit")
              ELSE NoSuchFault(ws)
     ELSE IF grow /\ fault = 2
       THEN Raised(ws, read \o <<Call(fn, "add_cols", FALSE)>>, "APIError")
     ELSE IF fault = nupdate \/ ~InGrid(1, target_col, grown.cols)
       THEN Raised(grown, read \o added \o <<Call(fn, "update_cell", FALSE)>>,
                   "APIError")
     ELSE IF fault = 0
       THEN Returned([grown EXCEPT !.sheet = update_cell(ws.sheet, 1, target_col, date_str)],
                     read \o added \o <<Call(fn, "update_cell", TRUE)>>, target_col)
     ELSE NoSuchFault(ws)

append_record_under_column(ws, col, record, fault) ==
  LET fn == "append_record_under_column"
      first_empty_row == FirstEmptyRow(col_values(ws.sheet, col))
  IN IF fault = 1
       THEN Raised(ws, <<Call(fn, "col_values", FALSE)>>, "APIError")
     ELSE IF ~InGrid(first_empty_row, col, ws.cols)
       THEN IF fault = 0
              THEN Raised(ws, <<Call(fn, "col_values", TRUE),
                                Call(fn, "update_cell", FALSE)>>,
                          "APIError: exceeds grid limits")
              ELSE NoSuchFault(ws)
     ELSE IF fault = 2
       THEN Raised(ws, <<Call(fn, "col_values", TRUE),
                         Call(fn, "update_cell", FALSE)>>, "APIError")
     ELSE IF fault = 0
       THEN Returned([ws EXCEPT !.sheet = update_cell(ws.sheet, first_empty_row, col, record)],
                     <<Call(fn, "col_values", TRUE), Call(fn, "update_cell", TRUE)>>, 0)
     ELSE NoSuchFault(ws)

(***************************************************************************)
(* Inputs: the words users type, the messages built from them, the user    *)
(* names, the clock, and what a worksheet edited by hand may hold.         *)
(***************************************************************************)
T_d1 == <<"0", "3", "/", "0", "9", "/", "2", "0", "2", "5">>
T_d1u == <<"3", "/", "9", "/", "2", "0", "2", "5">>
T_d2 == <<"0", "4", "/", "0", "9", "/", "2", "0", "2", "5">>
T_noleap == <<"2", "9", "/", "0", "2", "/", "2", "0", "2", "5">>
T_Late == <<"L", "a", "t", "e">>
T_present == <<"p", "r", "e", "s", "e", "n", "t">>
T_early == <<"e", "a", "r", "l", "y">>
T_marvell == <<"m", "a", "r", "v", "e", "l", "l">>
T_sick == <<"s", "i", "c", "k">>
T_family == <<"f", "a", "m", "i", "l", "y">>
T_matter == <<"m", "a", "t", "t", "e", "r">>
T_na == <<"n", "a">>
T_2030 == <<"2", "0", ":", "3", "0">>
T_2400 == <<"2", "4", ":", "0", "0">>
T_mv == <<"m", "v">>
TS1 == <<"2", "0", "2", "5", "-", "0", "9", "-", "0", "3", " ", "1", "9", ":", "0", "0", ":", "0", "0">>
OldRecord == <<"N", "a", "m", "e", ":", " ", "o", "l", "d">>

\* the text of an update: the command followed by its argument words
Message(words) == join(<<" ">>, <<CMD>> \o words)

\* the third example of ATTENDANCE_INSTRUCTIONS
DocumentedExample ==
  Message(<<T_d1, S_leave, T_early, T_marvell, T_family, T_matter, T_2030>>)

Messages ==
  { CMD,
    Message(<<T_d1, S_absent, T_marvell, T_sick, S_NA>>),
    Message(<<T_d1u, T_Late, T_marvell, T_sick, T_2030>>),
    Message(<<T_d2, S_leaveearly, T_marvell, T_sick, T_na>>),
    DocumentedExample,
    Message(<<T_d1, S_absent, T_marvell, S_NA>>),
    Message(<<T_noleap, S_absent, T_marvell, T_sick, S_NA>>),
    Message(<<T_d1, T_present, T_marvell, T_sick, S_NA>>),
    Message(<<T_d1, S_late, T_marvell, T_sick, T_2400>>) }

Usernames == {Empty, T_mv}

Clock == {TS1}

\* the words the parser specification builds its messages from
Words == {T_d1u, T_noleap, S_leave, S_leave_early, T_Late, T_present, T_na, T_2030, T_2400}

\* worksheets edited by hand: at most MaxPrefilled cells of the new grid hold
\* something, a date in row 1 or an older record below it
HandCells == (1..MaxRows) \X (1..NewCols)

HandValues(cell) == IF cell[1] = 1 THEN {T_d1, T_d2} ELSE {OldRecord}

HandSheet(f) ==
  [r \in 1..MaxRows |->
     [c \in 1..ColLimit |-> IF <<r, c>> \in DOMAIN f THEN f[<<r, c>>] ELSE Empty]]

HandSheets ==
  UNION { { HandSheet(f) :
              f \in {g \in [S -> {T_d1, T_d2, OldRecord}] :
                       \A cell \in S : g[cell] \in HandValues(cell)} } :
          S \in {T \in SUBSET HandCells : Cardinality(T) <= MaxPrefilled} }

(***************************************************************************)
(* Init: no update has been dispatched.  The worksheet is missing, or it   *)
(* exists with the new grid and what was typed into it by hand.            *)
(***************************************************************************)
HandlerIdle ==
  /\ pc = "idle"
  /\ msg = Empty
  /\ username = Empty
  /\ parsed = Raise("")
  /\ col_idx = 0
  /\ record_line = Empty
  /\ err = ""
  /\ calls = <<>>
  /\ replies = <<>>
  /\ raised = FALSE
  /\ recorded = {}
  /\ invocations = 0

Init ==
  /\ HandlerIdle
  /\ \/ ws_exists = FALSE /\ sheet = EmptySheet /\ col_count = 0
     \/ ws_exists = TRUE /\ sheet \in HandSheets /\ col_count = NewCols
  /\ pre = sheet

(***************************************************************************)
(* The attendance handler, one action per step of its body.                *)
(***************************************************************************)
ws == [exists |-> ws_exists, sheet |-> sheet, cols |-> col_count]

\* a step of the try block that called a helper with result r
SheetStep(r, next) ==
  /\ r.fits
  /\ ws_exists' = r.ws.exists
  /\ sheet' = r.ws.sheet
  /\ col_count' = r.ws.cols
  /\ calls' = calls \o r.calls
  /\ IF r.ok THEN pc' = next /\ err' = err
             ELSE pc' = OnSheetError /\ err' = r.err

\* msg = update.message.text.strip(); the bare command gets the instructions
Attendance(text, user) ==
  /\ pc \in {"idle", "done"}
  /\ invocations < MaxInvocations
  /\ invocations' = invocations + 1
  /\ msg' = strip(text)
  /\ username' = user
  /\ pc' = IF msg' = CMD THEN "instructions" ELSE "parse"
  /\ parsed' = Raise("")
  /\ col_idx' = 0
  /\ record_line' = Empty
  /\ err' = ""
  /\ calls' = <<>>
  /\ replies' = <<>>
  /\ raised' = FALSE
  /\ pre' = sheet
  /\ UNCHANGED <<ws_exists, sheet, col_count, recorded>>

\* reply_text(ATTENDANCE_INSTRUCTIONS); return
ReplyInstructions(delivered) ==
  /\ pc = "instructions"
  /\ replies' = Append(replies, Reply("instructions", "", <<>>, delivered))
  /\ raised' = ~delivered
  /\ pc' = "done"
  /\ UNCHANGED <<ws_exists, sheet, col_count, msg, username, parsed, col_idx,
                 record_line, err, calls, pre, recorded, invocations>>

\* try: ... = parse_attendance_args(msg)  except Exception as e: ...
Parse ==
  /\ pc = "parse"
  /\ parsed' = parse_attendance_args(msg)
  /\ IF parsed'.ok THEN pc' = "get_ws" /\ err' = err
                   ELSE pc' = OnParseError /\ err' = parsed'.err
  /\ UNCHANGED <<ws_exists, sheet, col_count, msg, username, col_idx,
                 record_line, calls, replies, raised, pre, recorded, invocations>>

\* reply_text("⚠️ " + str(e) + format); return
ReplyWarning(delivered) ==
  /\ pc = "warning"
  /\ replies' = Append(replies, Reply("warning", err, <<>>, delivered))
  /\ raised' = ~delivered
  /\ pc' = "done"
  /\ UNCHANGED <<ws_exists, sheet, col_count, msg, username, parsed, col_idx,
                 record_line, err, calls, pre, recorded, invocations>>

\* ws = get_ws()
CallGetWs(fault) ==
  /\ pc = "get_ws"
  /\ SheetStep(get_ws(ws, fault), "ensure_header_row")
  /\ UNCHANGED <<msg, username, parsed, col_idx, record_line, replies, raised,
                 pre, recorded, invocations>>

\* ensure_header_row(ws)
CallEnsureHeaderRow(fault) ==
  /\ pc = "ensure_header_row"
  /\ SheetStep(ensure_header_row(ws, fault), "get_or_create_date_column")
  /\ UNCHANGED <<msg, username, parsed, col_idx, record_line, replies, raised,
                 pre, recorded, invocations>>

\* col_idx = get_or_create_date_column(ws, date_str)
CallGetOrCreateDateColumn(fault) ==
  LET r == get_or_create_date_column(ws, parsed.date_str, fault)
  IN /\ pc = "get_or_create_date_column"
     /\ SheetStep(r, "format_record_line")
     /\ col_idx' = IF r.fits /\ r.ok THEN r.value ELSE col_idx
     /\ UNCHANGED <<msg, username, parsed, record_line, replies, raised,
                    pre, recorded, invocations>>

\* ts_sgt = datetime.now(...).strftime(...); record_line = format_record_line(...)
CallFormatRecordLine(ts_sgt) ==
  /\ pc = "format_record_line"
  /\ record_line' = format_record_line(parsed.name, username, parsed.status,
                                       parsed.reason, ts_sgt, parsed.time_detail)
  /\ pc' = "append_record_under_column"
  /\ UNCHANGED <<ws_exists, sheet, col_count, msg, username, parsed, col_idx,
                 err, calls, replies, raised, pre, recorded, invocations>>

\* append_record_under_column(ws, col_idx, record_line)
CallAppendRecord(fault) ==
  LET r == append_record_under_column(ws, col_idx, record_line, fault)
  IN /\ pc = "append_record_under_column"
     /\ SheetStep(r, "reply_success")
     /\ recorded' = IF r.fits /\ r.ok
                      THEN recorded \cup {<<parsed.date_str, col_idx>>}
                      ELSE recorded
     /\ UNCHANGED <<msg, username, parsed, col_idx, record_line, replies,
                    raised, pre, invocations>>

\* the time line of the success reply
ReplyTimeLine(time_detail) ==
  IF upper(time_detail) # S_NA THEN time_detail ELSE S_NA

\* reply_text("✅ thank you ..."), the last statement of the try block
ReplySuccess(delivered) ==
  /\ pc = "reply_success"
  /\ replies' = Append(replies,
                  Reply("success", "",
                        <<parsed.name, parsed.status, parsed.date_str,
                          parsed.reason, ReplyTimeLine(parsed.time_detail)>>,
                        delivered))
  /\ IF delivered THEN pc' = "done" /\ err' = err
                  ELSE pc' = OnSheetError /\ err' = "NetworkError"
  /\ UNCHANGED <<ws_exists, sheet, col_count, msg, username, parsed, col_idx,
                 record_line, calls, raised, pre, recorded, invocations>>

\* except Exception as e: reply_text("❌ Could not write to Google Sheets ...")
ReplyFailure(delivered) ==
  /\ pc = "reply_failure"
  /\ replies' = Append(replies, Reply("failure", err, <<>>, delivered))
  /\ raised' = ~delivered
  /\ pc' = "done"
  /\ UNCHANGED <<ws_exists, sheet, col_count, msg, username, parsed, col_idx,
                 record_line, err, calls, pre, recorded, invocations>>

Next ==
  \/ \E text \in Messages, user \in Usernames : Attendance(text, user)
  \/ \E delivered \in BOOLEAN : ReplyInstructions(delivered)
  \/ Parse
  \/ \E delivered \in BOOLEAN : ReplyWarning(delivered)
  \/ \E fault \in 0..2 : CallGetWs(fault)
  \/ \E fault \in 0..2 : CallEnsureHeaderRow(fault)
  \/ \E fault \in 0..3 : CallGetOrCreateDateColumn(fault)
  \/ \E ts_sgt \in Clock : CallFormatRecordLine(ts_sgt)
  \/ \E fault \in 0..2 : CallAppendRecord(fault)
  \/ \E delivered \in BOOLEAN : ReplySuccess(delivered)
  \/ \E delivered \in BOOLEAN : ReplyFailure(delivered)

Spec == Init /\ [][Next]_vars

(***************************************************************************)
(* The parser alone: every message of at most MaxTokens words over Words   *)
(* is handed to parse_attendance_args.                                     *)
(***************************************************************************)
InitParse ==
  /\ ws_exists = FALSE
  /\ sheet = EmptySheet
  /\ col_count = 0
  /\ pc = "parse"
  /\ \E n \in 0..MaxTokens : \E w \in [1..n -> Words] : msg = strip(Message(w))
  /\ username = Empty
  /\ parsed = Raise("")
  /\ col_idx = 0
  /\ record_line = Empty
  /\ err = ""
  /\ calls = <<>>
  /\ replies = <<>>
  /\ raised = FALSE
  /\ pre = sheet
  /\ recorded = {}
  /\ invocations = 1

NextParse == Parse

SpecParse == InitParse /\ [][NextParse]_vars

(***************************************************************************)
(* Vocabulary of the properties.                                           *)
(***************************************************************************)
\* the argument words of the message being handled
Args == Tail(split(msg))

\* parse_attendance_args has returned or raised for the current message
ParseDone == pc \notin {"idle", "instructions", "parse"}

\* the record of the current invocation is in the worksheet
RecordWritten ==
  \E i \in 1..Len(calls) :
     calls[i] = Call("append_record_under_column", "update_cell", TRUE)

\* a helper of the try block raised in the current invocation
SheetStepFailed == \E i \in 1..Len(calls) : ~calls[i].ok

\* the cells whose value differs from the one at the start of the invocation
Changed ==
  {cell \in (1..MaxRows) \X (1..ColLimit) : sheet[cell[1]][cell[2]] # pre[cell[1]][cell[2]]}

\* the columns of row 1 of sh that hold the string d
HeaderCols(sh, d) == {c \in 1..ColLimit : sh[1][c] = d}

\* the last non-empty column of row 1 of sh, 0 when the row is empty
LastHeaderCol(sh) ==
  LET used == {c \in 1..ColLimit : sh[1][c] # Empty}
  IN IF used = {} THEN 0 ELSE CHOOSE c \in used : \A d \in used : d <= c

\* the decimal numeral of n < 100, with a leading zero when padded
Numeral(n, padded) ==
  IF n < 10 THEN (IF padded THEN <<"0", DigitChars[n + 1]>> ELSE <<DigitChars[n + 1]>>)
  ELSE <<DigitChars[(n \div 10) + 1], DigitChars[(n % 10) + 1]>>

Numeral4(y) ==
  <<DigitChars[(y \div 1000) + 1], DigitChars[((y \div 100) % 10) + 1],
    DigitChars[((y \div 10) % 10) + 1], DigitChars[(y % 10) + 1]>>

\* the years the input words mention, and their neighbours
Years == 2023..2026

\* day/month/year strings of dates of the calendar, day and month written
\* with one or two digits, the year with four
DateStrings ==
  UNION { UNION { { Numeral(d, pd) \o <<"/">> \o Numeral(m, pm) \o <<"/">> \o Numeral4(y) :
                      d \in 1..(IF m = 2 THEN (IF y % 4 = 0 THEN 29 ELSE 28)
                                ELSE IF m \in {4, 6, 9, 11} THEN 30 ELSE 31),
                      pd \in BOOLEAN, pm \in BOOLEAN } :
                  m \in 1..12 } :
          y \in Years }

\* hour:minute strings of the 24-hour clock, each written with one or two digits
TimeStrings ==
  { Numeral(h, ph) \o <<":">> \o Numeral(mi, pmi) :
      h \in 0..23, mi \in 0..59, ph \in BOOLEAN, pmi \in BOOLEAN }

AcceptedStatusWords == {S_absent, S_late, S_leave, S_leaveearly, S_leave_early}

RecordedStatuses == {S_absent, S_late, S_leave_early_sp}

\* the three field conditions, on a list of at least five argument words
FieldsValid(a) ==
  /\ a[1] \in DateStrings
  /\ lower(a[2]) \in AcceptedStatusWords
  /\ upper(a[Len(a)]) = S_NA \/ a[Len(a)] \in TimeStrings

\* no record can be parsed from the message m
Unparseable(m) ==
  LET a == Tail(split(m))
  IN \/ m = CMD
     \/ Len(a) < 5
     \/ ~FieldsValid(a)

\* the calendar date a date string denotes
DateOf(s) ==
  LET p == Pieces(s, "/") IN <<ToInt(p[1]), ToInt(p[2]), ToInt(p[3])>>

\* no date string stands in two cells of row 1 of sh
NoDuplicateDateHeader(sh) ==
  \A c1, c2 \in 1..ColLimit :
     (c1 # c2 /\ sh[1][c1] = sh[1][c2]) => strptime_date(sh[1][c1]) # ""

(***************************************************************************)
(* Properties.                                                             *)
(***************************************************************************)

\* C1: no step of the handler takes a worksheet whose row 1 holds no date
\* string twice to one whose row 1 holds a date string twice; so from such a
\* worksheet, no sequence of /attendance invocations duplicates a date header.
C1_NoDuplicateDateHeader ==
  [][NoDuplicateDateHeader(sheet) => NoDuplicateDateHeader(sheet')]_vars

\* C1 witness: a record was written under a date header that was already
\* there, and row 1 still holds no date twice.
C1_Witness ==
  /\ pc = "done"
  /\ RecordWritten
  /\ NoDuplicateDateHeader(pre)
  /\ pre[1][col_idx] = parsed.date_str
  /\ LastHeaderCol(pre) > col_idx
  /\ NoDuplicateDateHeader(sheet)

\* C2 (as claimed): a written record stands in the lowest row >= 2 of the
\* date's column whose cell was empty.
C2_FirstEmptyCell ==
  RecordWritten =>
    \E r \in 2..MaxRows :
       /\ pre[r][col_idx] = Empty
       /\ \A q \in 2..(r - 1) : pre[q][col_idx] # Empty
       /\ sheet[r][col_idx] = record_line

\* C3: when get_or_create_date_column has returned, row 1 holds the date at
\* the returned column; a date that was in row 1 gives its first column and
\* no cell has changed; a date that was not is written right after the last
\* non-empty cell of row 1, into a cell that was empty, and nothing else has
\* changed.
C3_FindOrCreate ==
  pc = "format_record_line" =>
    LET d == parsed.date_str
        was == HeaderCols(pre, d)
    IN /\ col_idx \in 1..ColLimit
       /\ sheet[1][col_idx] = d
       /\ was # {} => /\ col_idx \in was
                      /\ \A c \in was : col_idx <= c
                      /\ sheet = pre
       /\ was = {} => /\ col_idx = LastHeaderCol(pre) + 1
                      /\ pre[1][col_idx] = Empty
                      /\ Changed = {<<1, col_idx>>}

\* C3 witness: the date was not in row 1, which held other headers, and has
\* been appended after them.
C3_Witness ==
  /\ pc = "format_record_line"
  /\ HeaderCols(pre, parsed.date_str) = {}
  /\ LastHeaderCol(pre) >= 1
  /\ sheet[1][LastHeaderCol(pre) + 1] = parsed.date_str

\* C4 (as claimed): a message DATE leave early NAME REASON... TIME parses to
\* status "leave early", name NAME, reason the REASON words, time TIME.
C4_DocumentedLeaveEarly ==
  LET a == Args
      n == Len(a)
  IN (ParseDone /\ n >= 6 /\ a[2] = S_leave /\ a[3] = T_early) =>
       /\ parsed.ok
       /\ parsed.status = S_leave_early_sp
       /\ parsed.name = a[4]
       /\ parsed.reason = join(<<" ">>, SubSeq(a, 5, n - 1))
       /\ parsed.time_detail = a[n]

\* C5 (as claimed): two written records are in the same column exactly when
\* their date arguments denote the same calendar date.
C5_KeyedByDate ==
  \A x, y \in recorded : (DateOf(x[1]) = DateOf(y[1])) <=> (x[2] = y[2])

\* C6: while and after a message from which no record can be parsed is
\* handled, no spreadsheet call is made and the worksheet is as it was; when
\* the handler is done it has made exactly one reply_text call, with the
\* instructions for the bare command and with the warning otherwise.
C6_NoRecordNoSheetCall ==
  (pc # "idle" /\ Unparseable(msg)) =>
    /\ calls = <<>>
    /\ sheet = pre
    /\ pc # "done" => replies = <<>>
    /\ pc = "done" =>
         /\ Len(replies) = 1
         /\ replies[1].kind = IF msg = CMD THEN "instructions" ELSE "warning"

\* C6 witness: five words with a refused time have been answered with the
\* warning, on a worksheet that holds data.
C6_Witness ==
  /\ pc = "done"
  /\ msg # CMD
  /\ Len(Args) >= 5
  /\ Unparseable(msg)
  /\ replies = <<Reply("warning", "time data does not match format '%H:%M'", <<>>, TRUE)>>
  /\ sheet # EmptySheet

\* C7 (as claimed): when a spreadsheet step has failed, no spreadsheet call
\* follows it, exactly one failure reply with the error is made, and no
\* exception leaves the handler.
C7_CaughtOnceAndEchoed ==
  /\ \A i \in 1..(Len(calls) - 1) : calls[i].ok
  /\ (pc = "done" /\ SheetStepFailed) =>
       /\ Len(replies) = 1
       /\ replies[1].kind = "failure"
       /\ replies[1].err = err /\ err # ""
       /\ ~raised

\* C7 (amended): when a spreadsheet step has failed, no spreadsheet call
\* follows it, exactly one reply_text call is made, the failure reply with
\* the error, and an exception leaves the handler exactly when sending that
\* reply raises.
C7_CaughtOnceUnlessReplyRaises ==
  /\ \A i \in 1..(Len(calls) - 1) : calls[i].ok
  /\ (pc = "done" /\ SheetStepFailed) =>
       /\ Len(replies) = 1
       /\ replies[1].kind = "failure"
       /\ replies[1].err = err /\ err # ""
       /\ raised <=> ~replies[1].delivered

\* C7 witness: the append failed after the header had been written; the
\* failure reply was delivered and nothing left the handler.
C7_Witness ==
  /\ pc = "done"
  /\ SheetStepFailed
  /\ calls[Len(calls)].fn = "append_record_under_column"
  /\ Changed # {}
  /\ replies[1].delivered
  /\ ~raised

\* C8 (as claimed): a delivered success reply comes only after the record
\* of this invocation was written, and a delivered failure reply comes only
\* in an invocation whose record was not written.
C8_ReplyMatchesSheet ==
  \A i \in 1..Len(replies) :
     replies[i].delivered =>
       /\ replies[i].kind = "success" => RecordWritten
       /\ replies[i].kind = "failure" => ~RecordWritten

C10_Frame ==
  RecordWritten =>
    /\ \E r \in 2..MaxRows :
          Changed \in {{<<r, col_idx>>}, {<<1, col_idx>>, <<r, col_idx>>}}
    /\ <<1, col_idx>> \in Changed => HeaderCols(pre, parsed.date_str) = {}
    /\ \A cell \in Changed : pre[cell[1]][cell[2]] = Empty
    /\ Cardinality(Changed) <= 2

\* C10 witness: header and record were both written, into a worksheet that
\* held a header and a record before.
C10_Witness ==
  /\ pc = "done"
  /\ RecordWritten
  /\ Cardinality(Changed) = 2
  /\ \E c \in 1..ColLimit : pre[1][c] # Empty /\ pre[2][c] # Empty

====
